---- MODULE Spec2Model ----
(***************************************************************************)
(* A model of pypix.py: the sparse PixelGrid, Frame.calculate_clusters     *)
(* (8-neighbour flood fill), the nearest-cluster search, the attribute     *)
(* table and the training-row export.                                      *)
(*                                                                         *)
(* A grid (a dict subclass) is a sequence of entries [pixel, value] in the *)
(* dict's iteration order; keys are unique.  The Hit object stored at      *)
(* entry i of the frame is identified by i; its cluster back-reference is  *)
(* hitCluster[i] (0 is None).  A Cluster object is identified by its       *)
(* position in the list self.clusters.                                     *)
(***************************************************************************)
EXTENDS Integers, Sequences, FiniteSets, TLC

\* ---------------------------------------------------------------- bounds
MaxHits == 3

\* the keys of the model: columns 0..2 of rows 0 and 1.  A frame is two rows
\* high and three or two columns wide; in the narrow one column 2 lies
\* outside the grid
Xs == {0, 1, 2}
Ys == {0, 1}
Widths == {2, 3}
Values == {0, 1}
Pixels == Xs \X Ys

VARIABLES
    width, height,   \* PixelGrid.width, PixelGrid.height of the frame
    frame,           \* the frame's mapping: Seq of [pixel, value]
    hitCluster,      \* hitCluster[i]: Hit.cluster of the Hit at frame[i], 0 = None
    clusters,        \* Frame.clusters: Seq of [pixels, manual_class]
    clustersList,    \* identity of the list object bound to Frame.clusters
    created,         \* number of Cluster objects constructed so far
    addLog,          \* the frame indices passed to Cluster.add, in call order
    attribute_table, \* the OrderedDict: Seq of [name, class_, plottable, trainable]
    op,              \* the last operation performed, with its arguments
    ret              \* what it returned

vars == <<width, height, frame, hitCluster, clusters, clustersList, created,
          addLog, attribute_table, op, ret>>

\* ------------------------------------------------------------ PixelGrid

\* PixelGrid.in_grid
in_grid(pixel) ==
    0 <= pixel[1] /\ pixel[1] < width /\ 0 <= pixel[2] /\ pixel[2] < height

\* PixelGrid.hit_pixels: the keys of the mapping, in iteration order
hit_pixels(grid) == [i \in 1..Len(grid) |-> grid[i].pixel]

\* position of key in the mapping, 0 when the key is absent
IndexOf(grid, key) ==
    IF \E i \in 1..Len(grid) : grid[i].pixel = key
    THEN CHOOSE i \in 1..Len(grid) : grid[i].pixel = key
    ELSE 0

\* a Hit object: its value and the frame entry that stores it (0: stored nowhere)
Hit(value, ref) == [value |-> value, ref |-> ref]

\* the outcome of a call: status "ok" and the value returned, or the name
\* of the exception raised
Ok(v) == [status |-> "ok", value |-> v]
Raise(e) == [status |-> e, value |-> 0]

\* a __missing__ that stores the Hit it makes, as a defaultdict would
missing_inserting(grid, key) ==
    IF in_grid(key)
    THEN [status |-> "ok", hit |-> Hit(0, Len(grid) + 1),
          data |-> Append(grid, [pixel |-> key, value |-> 0])]
    ELSE [status |-> "KeyError", hit |-> Hit(0, 0), data |-> grid]

\* PixelGrid.__missing__: the Hit returned or the KeyError raised, and the
\* mapping afterwards
missing(grid, key) ==
    IF in_grid(key)
    THEN [status |-> "ok", hit |-> Hit(0, 0), data |-> grid]
    ELSE [status |-> "KeyError", hit |-> Hit(0, 0), data |-> grid]

\* dict.__getitem__ on a PixelGrid: the stored Hit, else __missing__
getitem(grid, key) ==
    LET i == IndexOf(grid, key)
    IN  IF i # 0
        THEN [status |-> "ok", hit |-> Hit(grid[i].value, i), data |-> grid]
        ELSE missing(grid, key)

\* min([...]) and max([...]) of PixelGrid.min_x, max_x, min_y, max_y
MinOf(S) == CHOOSE m \in S : \A k \in S : m <= k
MaxOf(S) == CHOOSE m \in S : \A k \in S : m >= k

\* PixelGrid.min_x, max_x (coord = 1) and min_y, max_y (coord = 2); min() and
\* max() of an empty list raise ValueError
extremum(grid, coord, which) ==
    IF grid = <<>> THEN Raise("ValueError")
    ELSE LET S == { grid[i].pixel[coord] : i \in 1..Len(grid) }
         IN  Ok(IF which = "min" THEN MinOf(S) ELSE MaxOf(S))

\* lst[k] on a list of n items: a negative k counts from the end of the list,
\* and a k outside -n..n-1 raises IndexError
index_ok(k, n) == -n <= k /\ k < n
list_index(k, n) == IF k < 0 THEN k + n ELSE k

\* PixelGrid.render_energy: rows of `height` lists of `width` values, row y
\* at position y + 1.  The loop writes grid[y][x] for every key in iteration
\* order: the last key written to a cell decides it
render_energy(grid) ==
    IF \E i \in 1..Len(grid) :
           ~(index_ok(grid[i].pixel[1], width) /\ index_ok(grid[i].pixel[2], height))
    THEN Raise("IndexError")
    ELSE Ok([y \in 1..height |->
               [x \in 1..width |->
                  LET written == { i \in 1..Len(grid) :
                                     /\ list_index(grid[i].pixel[1], width) = x - 1
                                     /\ list_index(grid[i].pixel[2], height) = y - 1 }
                  IN  IF written = {} THEN 0 ELSE grid[MaxOf(written)].value]])

\* an optional integer argument: None, or an integer
None == [given |-> FALSE, v |-> 0]
Given(k) == [given |-> TRUE, v |-> k]

\* `not arg` for an optional integer: None and 0 are both false
Falsy(arg) == ~arg.given \/ arg.v = 0

\* `if not arg: arg = self.<extremum>`
OrExtremum(arg, grid, coord, which) ==
    IF Falsy(arg) THEN extremum(grid, coord, which) ELSE Ok(arg.v)

\* PixelGrid.render_energy_zoomed
render_energy_zoomed(grid, min_x, min_y, max_x, max_y) ==
    LET x0 == OrExtremum(min_x, grid, 1, "min")
        x1 == OrExtremum(max_x, grid, 1, "max")
        y0 == OrExtremum(min_y, grid, 2, "min")
        y1 == OrExtremum(max_y, grid, 2, "max")
    IN  IF \E r \in {x0, x1, y0, y1} : r.status # "ok"
        THEN Raise("ValueError")
        ELSE IF \E x \in x0.value..x1.value : \E y \in y0.value..y1.value :
                    getitem(grid, <<x, y>>).status # "ok"
             THEN Raise("KeyError")
             ELSE Ok([j \in 1..(y1.value - y0.value + 1) |->
                        [i \in 1..(x1.value - x0.value + 1) |->
                           getitem(grid, <<x0.value + i - 1,
                                           y0.value + j - 1>>).hit.value]])

\* ------------------------------------------------------------- Cluster

Unclassified == "Unclassified"

\* Cluster.__init__
NewCluster == [pixels |-> <<>>, manual_class |-> Unclassified]

\* The flood fill threads a record st through its calls: st.hc the Hit.cluster
\* back-references, st.cl the list of clusters, st.list the identity of that
\* list, st.log the Cluster.add calls made, st.created the number of Cluster
\* objects constructed, st.exc whether a RecursionError is propagating.
\*
\* The interpreter's stack is finite (sys.getrecursionlimit()).  A call is
\* made with `left` frames still free.  In CPython 3.11 a Python function,
\* method, property or list comprehension takes one frame, and the
\* instantiation of a class takes one for the call of the type and one for
\* each __init__ of the chain; a call that finds no free frame raises
\* RecursionError, which nothing in the module catches.  The comparisons the
\* interpreter makes in C count as well: the lookup self[(i, j)] of a stored
\* key with a tuple built for the purpose compares the two tuples, one level,
\* and their items when these are not the same objects, one level more.

\* RecursionError raised in the state st
Overflow(st) == [st EXCEPT !.exc = TRUE]

\* Cluster(256, 256): the type, Cluster.__init__, PixelGrid.__init__
cluster_frames == 3

\* Hit.cluster of a Hit object; a Hit made by __missing__ has none
ClusterOf(st, hit) == IF hit.ref = 0 THEN 0 ELSE st.hc[hit.ref]

\* `not hit.cluster`: None, or a Cluster (a dict) holding no pixel
NotClustered(st, hit) ==
    LET c == ClusterOf(st, hit)
    IN  c = 0 \/ Len(st.cl[c].pixels) = 0

\* Cluster.add: hit.cluster = self; self[pixel] = hit
add(st, c, pixel, hit) ==
    [st EXCEPT
       !.hc = IF hit.ref = 0 THEN @ ELSE [@ EXCEPT ![hit.ref] = c],
       !.cl = [@ EXCEPT ![c].pixels =
                  IF \E k \in 1..Len(@) : @[k] = pixel THEN @ ELSE Append(@, pixel)],
       !.log = Append(@, hit.ref)]

\* --------------------------------------------------------------- Frame

\* [(i, j) for i in x_values for j in y_values]
Neighbourhood(pixel) ==
    LET x == pixel[1]
        y == pixel[2]
    IN  << <<x-1, y-1>>, <<x-1, y>>, <<x-1, y+1>>,
           <<x,   y-1>>, <<x,   y>>, <<x,   y+1>>,
           <<x+1, y-1>>, <<x+1, y>>, <<x+1, y+1>> >>

\* the filter of the new_pixels comprehension
IsNewPixel(st, p) ==
    /\ in_grid(p)
    /\ LET hit == getitem(frame, p).hit
       IN  hit.value # 0 /\ NotClustered(st, hit)

new_pixels(st, pixel) ==
    SelectSeq(Neighbourhood(pixel), LAMBDA p : IsNewPixel(st, p))

\* the integers CPython keeps as single objects: equal ones are identical
small_int(k) == -5 <= k /\ k <= 256

\* the frames the new_pixels comprehension takes at its deepest.  When some
\* self[(i, j)] is not stored: itself, __missing__ and the Hit(0) it builds
\* (the type and Hit.__init__).  Otherwise, when a stored (i, j) has a
\* coordinate that is not a small integer: itself, the comparison of the key
\* tuples and the comparison of that coordinate.  Otherwise itself and
\* in_grid, or itself and the comparison of the key tuples.
new_pixels_frames(pixel) ==
    IF \E k \in 1..9 :
           /\ in_grid(Neighbourhood(pixel)[k])
           /\ IndexOf(frame, Neighbourhood(pixel)[k]) = 0
    THEN 4
    ELSE IF \E k \in 1..9 :
           /\ in_grid(Neighbourhood(pixel)[k])
           /\ ~(small_int(Neighbourhood(pixel)[k][1])
                 /\ small_int(Neighbourhood(pixel)[k][2]))
    THEN 3
    ELSE 2

RECURSIVE AddAll(_, _, _)
\* for new_pixel in new_pixels: cluster.add(new_pixel, self[new_pixel])
AddAll(st, np, c) ==
    IF np = <<>> THEN st
    ELSE AddAll(add(st, c, Head(np), getitem(frame, Head(np)).hit), Tail(np), c)

RECURSIVE add_neighbouring_pixels(_, _, _, _)
RECURSIVE RecurseAll(_, _, _, _)
\* for new_pixel in new_pixels: self._add_neighbouring_pixels(new_pixel, cluster)
\* the loop ends when a call raises
RecurseAll(st, np, c, left) ==
    IF np = <<>> \/ st.exc THEN st
    ELSE RecurseAll(add_neighbouring_pixels(st, Head(np), c, left),
                    Tail(np), c, left)

RECURSIVE AddRecurseInterleaved(_, _, _, _)
\* a single loop that adds a pixel and recurses into it at once
AddRecurseInterleaved(st, np, c, left) ==
    IF np = <<>> \/ st.exc THEN st
    ELSE AddRecurseInterleaved(
             add_neighbouring_pixels(
                 add(st, c, Head(np), getitem(frame, Head(np)).hit),
                 Head(np), c, left),
             Tail(np), c, left)

\* the two loops of _add_neighbouring_pixels, one after the other; Cluster.add
\* takes one frame, which is free when the comprehension before it was
AddThenRecurse(st, np, c, left) == RecurseAll(AddAll(st, np, c), np, c, left)

\* Frame._add_neighbouring_pixels, called with `left` frames free: one is its
\* own, the comprehension needs new_pixels_frames more and raises before
\* any pixel is added when they are not there
add_neighbouring_pixels(st, pixel, c, left) ==
    IF left < 1 + new_pixels_frames(pixel)
    THEN Overflow(st)
    ELSE AddThenRecurse(st, new_pixels(st, pixel), c, left - 1)

\* `if not self[pixel].cluster` for the pixel at frame[i]
NeedsSeed(st, i) == NotClustered(st, getitem(frame, hit_pixels(frame)[i]).hit)

\* one iteration of `for pixel in self.hit_pixels`, with `left` frames free
\* in calculate_clusters
SeedStep(st, i, left) ==
    IF NeedsSeed(st, i)
    THEN IF left < cluster_frames
         THEN Overflow(st)
         ELSE LET c == Len(st.cl) + 1
                  pixel == hit_pixels(frame)[i]
                  st1 == [st EXCEPT !.cl = Append(@, NewCluster),
                                    !.created = @ + 1]
                  st2 == add(st1, c, pixel, getitem(frame, pixel).hit)
              IN  add_neighbouring_pixels(st2, pixel, c, left)
    ELSE st

RECURSIVE SeedLoop(_, _, _)
\* the loop ends when an iteration raises
SeedLoop(st, i, left) ==
    IF i > Len(hit_pixels(frame)) \/ st.exc THEN st
    ELSE SeedLoop(SeedStep(st, i, left), i + 1, left)

\* the frame as it is, no exception raised
Now ==
    [hc |-> hitCluster, cl |-> clusters, list |-> clustersList, log |-> addLog,
     created |-> created, exc |-> FALSE]

\* the state calculate_clusters() leaves when called with `stack` frames
\* free beyond its own: the caller can always enter the method it calls, and
\* with stack = 0 the method can call nothing.  The body of
\* `if not self.clusters` rebinds self.clusters to a new list, which takes no
\* call, reads the property hit_pixels and fills the list.  exc: the call
\* raised RecursionError, and what was done stays done
Clustered(stack) ==
    IF clusters # <<>>
    THEN Now
    ELSE IF stack < 2
    THEN Overflow([Now EXCEPT !.list = @ + 1])
    ELSE SeedLoop([Now EXCEPT !.list = @ + 1], 1, stack - 1)

\* min(seq, key = lambda x: x[1]): the first element of least key
FirstMin(seq) ==
    seq[CHOOSE i \in 1..Len(seq) :
            /\ \A j \in 1..Len(seq) : seq[i][2] <= seq[j][2]
            /\ \A j \in 1..(i - 1) : seq[j][2] > seq[i][2]]

\* the list square_distances, built after the clustering
square_distances(hc, point) ==
    [i \in 1..Len(frame) |->
        << hc[i],
           (frame[i].pixel[1] - point[1]) * (frame[i].pixel[1] - point[1])
           + (frame[i].pixel[2] - point[2]) * (frame[i].pixel[2] - point[2]) >>]

\* the value get_closest_cluster returns (0 is None); min() of an empty list
\* raises
closest_cluster(hc, point) ==
    IF frame = <<>> THEN Raise("ValueError")
    ELSE Ok(FirstMin(square_distances(hc, point))[1])

\* what get_closest_cluster leaves and returns once the clustering, if any
\* was due, has left the state r
returned(r, point, stack) ==
    [state |-> r,
     ret |-> IF r.exc \/ stack < 2 THEN Raise("RecursionError")
             ELSE closest_cluster(r.hc, point)]

\* Frame.get_closest_cluster called with `stack` frames free beyond its own.
\* When self.clusters is empty it calls calculate_clusters(), which runs in
\* what is left; with stack = 0 that call raises before the method is
\* entered and self.clusters stays as it was.  The property hit_pixels and
\* the key function of min() take one frame each
closest(point, stack) ==
    returned(IF clusters = <<>> /\ stack >= 1 THEN Clustered(stack - 1) ELSE Now,
             point, stack)

\* ------------------------------------------------- attributes, training

\* an optional flag argument: None, or a boolean
NoFlag == [given |-> FALSE, v |-> FALSE]
Flag(b) == [given |-> TRUE, v |-> b]

\* `if not trainable: trainable = plottable`
trainable_flag(plottable, trainable) ==
    IF ~trainable.given \/ ~trainable.v THEN plottable ELSE trainable.v

\* attribute(class_, name, plottable, trainable)(function):
\* attribute_table[name] = (function, class_, plottable, trainable); an
\* OrderedDict keeps the place of a name it already holds
attribute(table, class_, name, function, plottable, trainable) ==
    LET entry == [name |-> name, function |-> function, class_ |-> class_,
                  plottable |-> plottable,
                  trainable |-> trainable_flag(plottable, trainable)]
    IN  IF \E i \in 1..Len(table) : table[i].name = name
        THEN [i \in 1..Len(table) |->
                 IF table[i].name = name THEN entry ELSE table[i]]
        ELSE Append(table, entry)

\* isinstance(cluster, class_) for a Cluster, a subclass of PixelGrid
IsInstanceOfCluster(class_) == class_ \in {"Cluster", "PixelGrid"}

\* the identity token of the cluster at position c of the list
UUID(c) == c

RECURSIVE SumValues(_, _)
SumValues(pixels, k) ==
    IF k = 0 THEN 0
    ELSE frame[IndexOf(frame, pixels[k])].value + SumValues(pixels, k - 1)

\* the attribute functions registered: the number of pixels of a cluster and
\* the sum of its counts
Apply(function, cluster) ==
    IF function = "size" THEN Len(cluster.pixels)
    ELSE SumValues(cluster.pixels, Len(cluster.pixels))

\* the columns of get_training_row that come from the table
trainable_columns(table, cluster) ==
    LET picked == SelectSeq(table,
                      LAMBDA e : IsInstanceOfCluster(e.class_) /\ e.trainable)
    IN  [k \in 1..Len(picked) |-> ToString(Apply(picked[k].function, cluster))]

\* Cluster.get_training_row; the record is kept as the list of its fields
get_training_row(table, cs, c) ==
    <<UUID(c), cs[c].manual_class>> \o trainable_columns(table, cs[c])

\* a filter that keeps every cluster
AnyClass(cluster) == TRUE

\* `if cluster.manual_class != "Unclassified"`
Classified(cluster) == cluster.manual_class # Unclassified

RECURSIVE RowsFrom(_, _, _)
\* [cluster.get_training_row() for cluster in self.clusters if ...]
RowsFrom(table, cs, c) ==
    IF c > Len(cs) THEN <<>>
    ELSE (IF Classified(cs[c]) THEN <<get_training_row(table, cs, c)>> ELSE <<>>)
         \o RowsFrom(table, cs, c + 1)

\* Frame.get_training_rows; the text is kept as the list of its rows
get_training_rows(table, cs) == RowsFrom(table, cs, 1)

\* Frame.load_training_data: data maps identity tokens to classes
load_training_data(cs, data) ==
    [c \in 1..Len(cs) |->
        IF UUID(c) \in DOMAIN data
        THEN [cs[c] EXCEPT !.manual_class = data[UUID(c)]]
        ELSE cs[c]]

\* ----------------------------------------------------------- behaviour

\* the mappings a loader can build over the keys P: at most n entries, keys
\* unique
FramesOver(P, n) ==
    { f \in UNION { [1..k -> [pixel : P, value : Values]] : k \in 0..n } :
        \A i, j \in 1..Len(f) : i # j => f[i].pixel # f[j].pixel }

FramesUpTo(n) == FramesOver(Pixels, n)

\* the last columns of a frame one row high and 302 columns wide: their x
\* coordinates are not small integers
WidePixels == {299, 300, 301} \X {0}

\* the frames free on the interpreter's stack beyond the one of the method
\* called (sys.getrecursionlimit() less the depth of the caller, less one):
\* from none, when the caller runs one frame below the limit, to enough for
\* the deepest flood fill of MaxHits hits
MaxStack == MaxHits + 5
Stacks == 0..MaxStack

\* the list objects a frame may bind to self.clusters before the model stops
MaxLists == 2

Fresh ==
    /\ hitCluster = [i \in 1..Len(frame) |-> 0]
    /\ clusters = <<>>
    /\ clustersList = 0
    /\ created = 0
    /\ addLog = <<>>
    /\ op = [name |-> "init"]
    /\ ret = Ok(0)

\* a frame just built by a loader, or Frame(302, 1, data); nothing registered
Init ==
    /\ \/ width \in Widths /\ height = 2 /\ frame \in FramesUpTo(MaxHits)
       \/ width = 302 /\ height = 1 /\ frame \in FramesOver(WidePixels, MaxHits)
    /\ attribute_table = <<>>
    /\ Fresh

\* Frame.calculate_clusters, called with `stack` frames free
CalculateClusters(stack) ==
    /\ clusters = <<>> => clustersList < MaxLists
    /\ \E r \in {Clustered(stack)} :
           /\ hitCluster' = r.hc
           /\ clusters' = r.cl
           /\ addLog' = r.log
           /\ created' = r.created
           /\ clustersList' = r.list
           /\ ret' = IF r.exc THEN Raise("RecursionError") ELSE Ok(r.list)
    /\ op' = [name |-> "calculate_clusters"]
    /\ UNCHANGED <<width, height, frame, attribute_table>>

\* the stacks that tell calls of calculate_clusters() apart: with the list
\* cached the method calls nothing, and one stack stands for all
StacksOfCalculate == IF clusters = <<>> THEN Stacks ELSE {MaxStack}

Next == \E stack \in StacksOfCalculate : CalculateClusters(stack)

Spec == Init /\ [][Next]_vars

\* ---- the nearest-cluster search

InitSmall ==
    /\ width \in Widths
    /\ height = 2
    /\ frame \in FramesUpTo(MaxHits - 1)
    /\ attribute_table = <<>>
    /\ Fresh

\* Frame.get_closest_cluster, called with `stack` frames free
GetClosestCluster(point, stack) ==
    /\ clusters = <<>> => clustersList < MaxLists
    /\ \E r \in {closest(point, stack)} :
           /\ hitCluster' = r.state.hc
           /\ clusters' = r.state.cl
           /\ addLog' = r.state.log
           /\ created' = r.state.created
           /\ clustersList' = r.state.list
           /\ ret' = r.ret
    /\ op' = [name |-> "get_closest_cluster", point |-> point]
    /\ UNCHANGED <<width, height, frame, attribute_table>>

\* the stacks that tell calls of get_closest_cluster() apart: with the list
\* cached the method reads hit_pixels and calls min() with a key function,
\* which stacks 0 and 1 cannot hold, and goes no deeper
StacksOfClosest == IF clusters = <<>> THEN Stacks ELSE {0, 1, MaxStack}

NextClosest ==
    \/ \E stack \in StacksOfCalculate : CalculateClusters(stack)
    \/ \E point \in Pixels, stack \in StacksOfClosest :
           GetClosestCluster(point, stack)

SpecClosest == InitSmall /\ [][NextClosest]_vars

\* ---- Cluster.add called on a cluster of the frame, outside the flood fill

\* the calls of Cluster.add made, by the fill and from outside, before the
\* model stops
MaxAdds == MaxHits + 1

\* self.clusters[c - 1].add(pixel, self[pixel]) for the pixel of the frame's
\* entry i: the Hit's back-reference is set to the cluster and the pixel
\* becomes one of its keys; the cluster the Hit belonged to keeps its key
ClusterAdd(c, i) ==
    /\ Len(addLog) < MaxAdds
    /\ \E r \in {add(Now, c, frame[i].pixel, getitem(frame, frame[i].pixel).hit)} :
           /\ hitCluster' = r.hc
           /\ clusters' = r.cl
           /\ addLog' = r.log
    /\ op' = [name |-> "add", cluster |-> c, pixel |-> frame[i].pixel]
    /\ ret' = Ok(0)
    /\ UNCHANGED <<width, height, frame, clustersList, created, attribute_table>>

NextAdd ==
    \/ \E stack \in StacksOfCalculate : CalculateClusters(stack)
    \/ \E c \in 1..Len(clusters), i \in 1..Len(frame) : ClusterAdd(c, i)

SpecAdd == InitSmall /\ [][NextAdd]_vars

\* ---- lookups and renderings of the frame's grid

ProbePixels == (((-1)..3) \X Ys) \cup {<<0, -1>>, <<0, 2>>}

\* self[pixel]
Get(pixel) ==
    /\ \E r \in {getitem(frame, pixel)} :
           /\ frame' = r.data
           /\ ret' = [status |-> r.status, value |-> r.hit.value]
    /\ op' = [name |-> "get", pixel |-> pixel]
    /\ UNCHANGED <<width, height, hitCluster, clusters, clustersList, created,
                   addLog, attribute_table>>

RenderEnergy ==
    /\ ret' = render_energy(frame)
    /\ op' = [name |-> "render_energy"]
    /\ UNCHANGED <<width, height, frame, hitCluster, clusters, clustersList,
                   created, addLog, attribute_table>>

RenderEnergyZoomed(min_x, min_y, max_x, max_y) ==
    /\ ret' = render_energy_zoomed(frame, min_x, min_y, max_x, max_y)
    /\ op' = [name |-> "render_energy_zoomed", min_x |-> min_x, min_y |-> min_y,
              max_x |-> max_x, max_y |-> max_y]
    /\ UNCHANGED <<width, height, frame, hitCluster, clusters, clustersList,
                   created, addLog, attribute_table>>

NextGrid == \E pixel \in ProbePixels : Get(pixel)

SpecGrid == InitSmall /\ [][NextGrid]_vars

NextRender ==
    \/ RenderEnergy
    \/ \E min_x \in {None, Given(0), Given(1)}, max_x \in {None, Given(width - 1)},
          min_y \in {None, Given(0)}, max_y \in {None, Given(height - 1)} :
           RenderEnergyZoomed(min_x, min_y, max_x, max_y)

\* the keys a loader stores unchecked: those of Pixels and keys left of and
\* above the grid
RenderPixels ==
    Pixels \cup {<<-1, 0>>, <<-3, 0>>, <<1, -1>>, <<0, -3>>}

InitRender ==
    /\ width \in Widths
    /\ height = 2
    /\ frame \in FramesOver(RenderPixels, 2)
    /\ attribute_table = <<>>
    /\ Fresh

SpecRender == InitRender /\ [][NextRender]_vars

\* ---- the attribute table

AttrNames == {"size", "volume"}
Classes == {"PixelGrid", "Frame", "Cluster"}
FlagArgs == {NoFlag, Flag(TRUE), Flag(FALSE)}

InitRegistry ==
    /\ width = 3
    /\ height = 2
    /\ frame = <<>>
    /\ attribute_table = <<>>
    /\ Fresh

\* @attribute(class_, name, plottable, trainable) applied to the function
\* called name
Register(class_, name, plottable, trainable) ==
    /\ attribute_table' =
           attribute(attribute_table, class_, name, name, plottable, trainable)
    /\ op' = [name |-> "attribute", attr |-> name, plottable |-> plottable,
              trainable |-> trainable]
    /\ ret' = Ok(0)
    /\ UNCHANGED <<width, height, frame, hitCluster, clusters, clustersList,
                   created, addLog>>

NextRegistry ==
    \E class_ \in Classes, name \in AttrNames, plottable \in BOOLEAN,
       trainable \in FlagArgs : Register(class_, name, plottable, trainable)

SpecRegistry == InitRegistry /\ [][NextRegistry]_vars

\* ---- the training export

Labels == {Unclassified, "alpha"}

Registrations ==
    [class_ : Classes, name : AttrNames, plottable : BOOLEAN, trainable : FlagArgs]

RECURSIVE RegisterAll(_, _)
\* the table after the registrations regs, made in order at import
RegisterAll(table, regs) ==
    IF regs = <<>> THEN table
    ELSE RegisterAll(attribute(table, Head(regs).class_, Head(regs).name,
                               Head(regs).name, Head(regs).plottable,
                               Head(regs).trainable),
                     Tail(regs))

MaxRegs == 2

ImportedTables ==
    { RegisterAll(<<>>, regs) :
        regs \in UNION { [1..k -> Registrations] : k \in 0..MaxRegs } }

\* a frame of non-zero hits on one row, the attributes already imported
InitTrain ==
    /\ width = 3
    /\ height = 2
    /\ frame \in { f \in FramesUpTo(MaxHits - 1) :
                     \A i \in 1..Len(f) : f[i].value = 1 /\ f[i].pixel[2] = 0 }
    /\ attribute_table \in ImportedTables
    /\ Fresh

LoadTrainingData(data) ==
    /\ clusters' = load_training_data(clusters, data)
    /\ op' = [name |-> "load_training_data"]
    /\ ret' = Ok(0)
    /\ UNCHANGED <<width, height, frame, hitCluster, clustersList, created,
                   addLog, attribute_table>>

GetTrainingRows ==
    /\ ret' = Ok(get_training_rows(attribute_table, clusters))
    /\ op' = [name |-> "get_training_rows"]
    /\ UNCHANGED <<width, height, frame, hitCluster, clusters, clustersList,
                   created, addLog, attribute_table>>

NextTrain ==
    \/ \E stack \in StacksOfCalculate : CalculateClusters(stack)
    \/ \E S \in { T \in SUBSET (1..MaxHits) : Cardinality(T) <= 1 } :
           \E data \in [S -> Labels] : LoadTrainingData(data)
    \/ GetTrainingRows

SpecTrain == InitTrain /\ [][NextTrain]_vars

\* ---------------------------------------------------------- properties

ClusterPixels(c) == { clusters[c].pixels[k] : k \in 1..Len(clusters[c].pixels) }
FramePixels == { frame[i].pixel : i \in 1..Len(frame) }
ValueAt(p) == frame[IndexOf(frame, p)].value
Adjacent(p, q) ==
    /\ p # q
    /\ p[1] - q[1] \in {-1, 0, 1}
    /\ p[2] - q[2] \in {-1, 0, 1}
\* the last operation was calculate_clusters() and it returned
Returned == op.name = "calculate_clusters" /\ ret.status = "ok"
InBounds(p) == p[1] \in 0..(width - 1) /\ p[2] \in 0..(height - 1)
SquareDistance(p, q) == (p[1] - q[1]) ^ 2 + (p[2] - q[2]) ^ 2

\* every key of the frame lies inside the grid and holds a non-zero value
HitsOnly == \A i \in 1..Len(frame) : InBounds(frame[i].pixel) /\ frame[i].value # 0

\* C1: when calculate_clusters() returns, the clusters' pixels together are
\* the frame's hit_pixels, no pixel is a key of two clusters, and every
\* cluster holds at least one pixel.  Stated for the frames of non-zero hits
\* inside the grid.
C1_Partition ==
    (Returned /\ HitsOnly) =>
        /\ UNION { ClusterPixels(c) : c \in 1..Len(clusters) } = FramePixels
        /\ \A c, d \in 1..Len(clusters) :
               c # d => ClusterPixels(c) \cap ClusterPixels(d) = {}
        /\ \A c \in 1..Len(clusters) : clusters[c].pixels # <<>>

RECURSIVE Reach(_, _)
\* the pixels of S joined to the set R by chains of 8-adjacent pixels of S
Reach(R, S) ==
    LET more == { q \in S \ R : \E p \in R : Adjacent(p, q) }
    IN  IF more = {} THEN R ELSE Reach(R \cup more, S)

NonZero(S) == { p \in S : ValueAt(p) # 0 }

\* C2: when calculate_clusters() returns, any two non-zero hits of one cluster are
\* joined by a chain of 8-adjacent non-zero hits of that cluster, and no two
\* 8-adjacent non-zero hits lie in different clusters.  Stated for the frames
\* whose keys all lie inside the grid.
C2_Connectivity ==
    (Returned /\ \A p \in FramePixels : InBounds(p)) =>
        /\ \A c \in 1..Len(clusters) :
               \A p \in NonZero(ClusterPixels(c)) :
                   NonZero(ClusterPixels(c)) \subseteq
                       Reach({p}, NonZero(ClusterPixels(c)))
        /\ \A c, d \in 1..Len(clusters) :
               c # d =>
                   \A p \in NonZero(ClusterPixels(c)) :
                       \A q \in NonZero(ClusterPixels(d)) : ~Adjacent(p, q)

\* C3: a call of calculate_clusters() that follows one that returned returns
\* the same list object holding the same clusters, creates no cluster and
\* writes no back-reference.
C3_Idempotent ==
    [][(Returned /\ op'.name = "calculate_clusters" /\ ret'.status = "ok") =>
          /\ clustersList' = clustersList
          /\ ret'.value = clustersList
          /\ clusters' = clusters
          /\ created' = created
          /\ hitCluster' = hitCluster
          /\ addLog' = addLog]_vars

\* C4 as stated: get(p) raises the out-of-bounds error for every p outside
\* the bounds; for p inside the bounds and absent it returns a Hit of value 0
\* and leaves the mapping as it was.
C4_LookupAsStated ==
    [][op'.name = "get" =>
          /\ ~InBounds(op'.pixel) => ret'.status = "KeyError"
          /\ (InBounds(op'.pixel) /\ op'.pixel \notin FramePixels) =>
                 (ret'.status = "ok" /\ ret'.value = 0 /\ frame' = frame)]_vars

\* C4, amended: get(p) raises the out-of-bounds error when p is outside the
\* bounds and absent from the mapping; for p inside the bounds and absent it
\* returns a Hit of value 0; a stored key yields its Hit wherever it lies;
\* the mapping is left as it was in every case.
C4_Lookup ==
    [][op'.name = "get" =>
          /\ frame' = frame
          /\ (~InBounds(op'.pixel) /\ op'.pixel \notin FramePixels) =>
                 ret'.status = "KeyError"
          /\ (InBounds(op'.pixel) /\ op'.pixel \notin FramePixels) =>
                 (ret'.status = "ok" /\ ret'.value = 0)
          /\ op'.pixel \in FramePixels =>
                 (ret'.status = "ok" /\ ret'.value = ValueAt(op'.pixel))]_vars

\* a lookup of an absent in-bounds pixel of a frame that holds a hit
C4_Witness ==
    /\ op.name = "get"
    /\ InBounds(op.pixel)
    /\ op.pixel \notin FramePixels
    /\ \E i \in 1..Len(frame) : frame[i].value # 0
    /\ ret.status = "ok"

\* what calculate_clusters() returns on the frame as it is
ClustersOfFrame == Clustered(MaxStack).cl

TrainableEntries ==
    { i \in 1..Len(attribute_table) :
        /\ attribute_table[i].class_ \in {"Cluster", "PixelGrid"}
        /\ attribute_table[i].trainable }

\* C5: get_training_rows emits one row for every cluster of
\* calculate_clusters() whose manual_class is not the default and no other
\* row; a row is the identity token, the manual_class, then the trainable
\* Cluster attributes in the order of the table.
C5_TrainingRows ==
    op.name = "get_training_rows" =>
        LET rows == ret.value
            cs == ClustersOfFrame
        IN  /\ \A c \in 1..Len(cs) :
                   Cardinality({ k \in 1..Len(rows) : rows[k][1] = UUID(c) })
                       = IF cs[c].manual_class # Unclassified THEN 1 ELSE 0
            /\ \A k \in 1..Len(rows) :
                   \E c \in 1..Len(cs) :
                       /\ rows[k][1] = UUID(c)
                       /\ rows[k][2] = cs[c].manual_class
                       /\ Len(rows[k]) = 2 + Cardinality(TrainableEntries)
                       /\ \A i \in TrainableEntries :
                              rows[k][2 + Cardinality({ j \in TrainableEntries :
                                                          j <= i })]
                                  = ToString(Apply(attribute_table[i].function,
                                                   cs[c]))

\* an export of a frame with a classified and an unclassified cluster and two
\* trainable attributes
C5_Witness ==
    /\ op.name = "get_training_rows"
    /\ Len(ret.value) = 1
    /\ Len(clusters) = 2
    /\ Len(ret.value[1]) = 4

\* C6: the entry's trainable flag is the plottable flag when trainable was
\* not given, and the given value when it was.
C6_TrainableFlag ==
    op.name = "attribute" =>
        \A i \in 1..Len(attribute_table) :
            attribute_table[i].name = op.attr =>
                attribute_table[i].trainable =
                    IF op.trainable.given THEN op.trainable.v ELSE op.plottable

\* C7: on a grid that holds hits, all of them inside the bounds,
\* render_energy_zoomed with the full grid as explicit bounds returns the
\* matrix render_energy returns.
C7_ZoomedFullGrid ==
    (/\ op.name = "render_energy_zoomed"
     /\ frame # <<>>
     /\ \A p \in FramePixels : InBounds(p)
     /\ op.min_x = Given(0)
     /\ op.min_y = Given(0)
     /\ op.max_x = Given(width - 1)
     /\ op.max_y = Given(height - 1)
     /\ render_energy(frame).status = "ok") =>
        (ret.status = "ok" /\ ret.value = render_energy(frame).value)

\* C8: when calculate_clusters() returns, no cluster holds a pixel of value
\* zero.
C8_ZeroNeverClustered ==
    Returned =>
        \A c \in 1..Len(clusters) : \A p \in ClusterPixels(c) : ValueAt(p) # 0

\* C9: a get_closest_cluster(point) that returns has clustered a frame that
\* had no cluster list, and returns the cluster of the hit pixel nearest to
\* point, the first such pixel in iteration order when several are nearest.
\* Stated for the frames of non-zero hits inside the grid.
C9_Closest ==
    [][(op'.name = "get_closest_cluster" /\ ret'.status = "ok" /\ HitsOnly) =>
          /\ clusters = <<>> =>
                 (clustersList' = clustersList + 1 /\ clusters' # <<>>)
          /\ clusters # <<>> =>
                 (clustersList' = clustersList /\ clusters' = clusters)
          /\ \E i \in 1..Len(frame) :
                 /\ \A j \in 1..Len(frame) :
                        SquareDistance(frame[i].pixel, op'.point)
                            <= SquareDistance(frame[j].pixel, op'.point)
                 /\ \A j \in 1..(i - 1) :
                        SquareDistance(frame[j].pixel, op'.point)
                            # SquareDistance(frame[i].pixel, op'.point)
                 /\ ret'.value = hitCluster'[i]
                 /\ ret'.value \in 1..Len(clusters')
                 /\ frame[i].pixel \in
                        { clusters'[ret'.value].pixels[k] :
                              k \in 1..Len(clusters'[ret'.value].pixels) }]_vars

\* C10: Cluster.add is performed at most once per hit, and a back-reference
\* that is set is never changed or reset.
C10_SingleAbsorption ==
    /\ [](\A i \in 1..Len(frame) :
              Cardinality({ k \in 1..Len(addLog) : addLog[k] = i }) <= 1)
    /\ [](\A i \in 1..Len(frame) :
              hitCluster[i] # 0 <=> \E k \in 1..Len(addLog) : addLog[k] = i)
    /\ [][\A i \in 1..Len(frame) :
              hitCluster[i] # 0 => hitCluster'[i] = hitCluster[i]]_vars

\* three mutually adjacent non-zero hits absorbed into one cluster: the last
\* is a neighbour of two pixels absorbed before it
C10_Witness ==
    /\ Returned
    /\ \E c \in 1..Len(clusters) :
           /\ Len(clusters[c].pixels) >= 3
           /\ \A p, q \in ClusterPixels(c) : p # q => Adjacent(p, q)
           /\ \A p \in ClusterPixels(c) : ValueAt(p) # 0
====
